---- MODULE Spec2Model ----
(***************************************************************************)
(* Model of the get-or-create shortening algorithm of shawty:              *)
(* service.shortener (Shorten, Resolve) running concurrently against the   *)
(* url_records table through repo.PostgresRepo.                            *)
(*                                                                         *)
(* Strings are sequences of text pieces; "+" is \o and strings.Contains is *)
(* contiguous sub-sequence search.  Each storage call is one atomic step,  *)
(* so callers interleave between their lookups, inserts and re-reads.      *)
(***************************************************************************)
EXTENDS Integers, Sequences, FiniteSets, TLC

\* ------------------------------------------------------------------ bounds
\* number of concurrent Shorten callers
NumProcs == 2
\* number of concurrent Resolve callers
NumResolvers == 1
\* number of distinct values the random source yields
NumRand == 2
\* number of storage calls that may fail for infrastructure reasons
MaxFaults == 1

\* ------------------------------------------------------- program constants
\* the code buffer made one rune short
CodeLen_Short == 6 - 1

\* length of a generated code
CodeLen == 6

\* the first loop written with "i <= 2"
MaxLookups_OneMore == 2 + 1

\* a single lookup before creation is attempted
MaxLookups_Single == 2 - 1

\* number of GetByLong lookups before creation is attempted
MaxLookups == 2
\* the retry loop written with "attempt <= 5"
MaxAttempts_OneMore == 5 + 1

\* insert attempts per Shorten call
MaxAttempts == 5

Procs == 1..NumProcs
Resolvers == 1..NumResolvers

\* ----------------------------------------------------------------- strings
Contains(s, sub) ==
    \E k \in 0..(Len(s) - Len(sub)) : \A j \in 1..Len(sub) : s[k + j] = sub[j]

\* the long URLs callers submit: a plain one and one whose text contains "code"
LongURLs ==
    { <<"https://example.com/", "a">>,
      <<"https://example.com/", "code", "-review">> }

\* the BASE_URL settings of the servers that share the table
BaseURLs == { <<"https://s/">>, <<"https://t/">> }

\* cfg.BaseURL of the server that handles the request of caller p
BaseURL(p) == IF p % 2 = 1 THEN <<"https://s/">> ELSE <<"https://t/">>

PgUniqueViolation == "23505"

\* ------------------------------------------------------------------ errors
NoErr == [kind |-> "nil", Code |-> "", Message |-> <<>>, Detail |-> <<>>]
ErrNoRows == [kind |-> "sql.ErrNoRows", Code |-> "", Message |-> <<>>, Detail |-> <<>>]
ErrStorage == [kind |-> "storage failure", Code |-> "", Message |-> <<>>, Detail |-> <<>>]
ErrCanceled == [kind |-> "context canceled", Code |-> "", Message |-> <<>>, Detail |-> <<>>]
ErrAlloc == [kind |-> "Could not allocate unique code", Code |-> "", Message |-> <<>>, Detail |-> <<>>]

\* the pq.Error PostgreSQL raises for a duplicate key in column col
UniqueViolation(col, value) ==
    [kind |-> "pq.Error", Code |-> PgUniqueViolation,
     Message |-> <<"duplicate key value violates unique constraint \"url_records_", col, "_key\"">>,
     Detail |-> <<"Key (", col, ")=(">> \o value \o <<") already exists.">>]

\* the pq.Error PostgreSQL raises for a duplicate primary key
PkeyViolation(id) ==
    [kind |-> "pq.Error", Code |-> PgUniqueViolation,
     Message |-> <<"duplicate key value violates unique constraint \"url_records_", "pkey\"">>,
     Detail |-> <<"Key (", "id", ")=(">> \o id \o <<") already exists.">>]

\* ----------------------------------------------------------------- records
EmptyRecord == [ID |-> <<>>, Code |-> <<>>, LongUrl |-> <<>>, ShortUrl |-> <<>>]

\* -------------------------------------------------------------- generators
chars ==
    << "a","b","c","d","e","f","g","h","i","j","k","l","m",
       "n","o","p","q","r","s","t","u","v","w","x","y","z",
       "A","B","C","D","E","F","G","H","I","J","K","L","M",
       "N","O","P","Q","R","S","T","U","V","W","X","Y","Z",
       "1","2","3","4","5","6","7","8","9","0" >>

\* the draws of the random source for one code
RandDraws == { [i \in 1..CodeLen |-> k] : k \in 0..(NumRand - 1) }

GenerateCode(rn) == [i \in 1..CodeLen |-> chars[rn[i] + 1]]

\* short := code + baseUrl
ShortURL_CodeFirst(baseUrl, code) == code \o baseUrl

\* short := baseUrl + code
ShortURL(baseUrl, code) == baseUrl \o code

\* uuid.New(): a value no other insert attempt uses
NewUUID(p, attempt) == <<"uuid", ToString(p), ToString(attempt)>>

VARIABLES
    store,      \* rows of url_records
    faults,     \* storage calls and random reads failed so far
    pc,         \* position of each Shorten caller
    call,       \* arguments and locals of each Shorten call
    ret,        \* what each Shorten call returned
    hist,       \* storage calls each Shorten call has made, with outcomes
    res,        \* Resolve callers
    resp,       \* the HTTP response each POST /shorten request was given
    gen         \* the code generator run on its own

vars == <<store, faults, pc, call, ret, hist, res, resp, gen>>

\* ----------------------------------------------------------------- storage
\* the lookup by long URL written with "WHERE code=$1"
GetByLong_ByCode(long) ==
    IF \E r \in store : r.Code = long
    THEN [rec |-> CHOOSE r \in store : r.Code = long, err |-> NoErr]
    ELSE [rec |-> EmptyRecord, err |-> ErrNoRows]

\* the lookup by long URL written without its WHERE clause
GetByLong_AnyRow(long) ==
    IF store # {}
    THEN [rec |-> CHOOSE r \in store : TRUE, err |-> NoErr]
    ELSE [rec |-> EmptyRecord, err |-> ErrNoRows]

\* SELECT ... WHERE long_url=$1, scanned into a record
GetByLong(long) ==
    IF \E r \in store : r.LongUrl = long
    THEN [rec |-> CHOOSE r \in store : r.LongUrl = long, err |-> NoErr]
    ELSE [rec |-> EmptyRecord, err |-> ErrNoRows]

\* the lookup by code written without its WHERE clause
GetByCode_AnyRow(code) ==
    IF store # {}
    THEN [rec |-> CHOOSE r \in store : TRUE, err |-> NoErr]
    ELSE [rec |-> EmptyRecord, err |-> ErrNoRows]

\* SELECT ... WHERE code=$1, scanned into a record
GetByCode(code) ==
    IF \E r \in store : r.Code = code
    THEN [rec |-> CHOOSE r \in store : r.Code = code, err |-> NoErr]
    ELSE [rec |-> EmptyRecord, err |-> ErrNoRows]

\* url_records declared without UNIQUE on long_url
ViolatedConstraints_NoLongUrl(code, long) ==
    IF \E r \in store : r.Code = code THEN {"code"} ELSE {}

\* url_records declared without UNIQUE on code
ViolatedConstraints_NoCode(code, long) ==
    IF \E r \in store : r.LongUrl = long THEN {"long_url"} ELSE {}

\* UNIQUE constraints of url_records violated by a new row
ViolatedConstraints(code, long) ==
    (IF \E r \in store : r.Code = code THEN {"code"} ELSE {})
    \cup (IF \E r \in store : r.LongUrl = long THEN {"long_url"} ELSE {})

\* an insert that writes the row before the constraints are checked
InsertOutcomes_NonAtomic(id, code, long, short) ==
    LET v == ViolatedConstraints(code, long)
        row == [ID |-> id, Code |-> code, LongUrl |-> long, ShortUrl |-> short]
    IN  IF v = {}
        THEN { [rec |-> row, err |-> NoErr, rows |-> store \cup {row}, viol |-> "none"] }
        ELSE { [rec |-> EmptyRecord,
                err |-> UniqueViolation(c, IF c = "code" THEN code ELSE long),
                rows |-> store \cup {row}, viol |-> c] : c \in v }

\* an insert written with "ON CONFLICT (long_url) DO UPDATE"
InsertOutcomes_Upsert(id, code, long, short) ==
    LET v == ViolatedConstraints(code, long)
        row == [ID |-> id, Code |-> code, LongUrl |-> long, ShortUrl |-> short]
    IN  IF "code" \notin v
        THEN { [rec |-> row, err |-> NoErr,
                rows |-> {r \in store : r.LongUrl # long} \cup {row}, viol |-> "none"] }
        ELSE { [rec |-> EmptyRecord, err |-> UniqueViolation("code", code),
                rows |-> store, viol |-> "code"] }

\* an insert whose VALUES list has long_url and short_url exchanged
InsertOutcomes_Swapped(id, code, long, short) ==
    LET v == ViolatedConstraints(code, short)
        row == [ID |-> id, Code |-> code, LongUrl |-> short, ShortUrl |-> long]
    IN  IF v = {}
        THEN { [rec |-> row, err |-> NoErr, rows |-> store \cup {row}, viol |-> "none"] }
        ELSE { [rec |-> EmptyRecord,
                err |-> UniqueViolation(c, IF c = "code" THEN code ELSE short),
                rows |-> store, viol |-> c] : c \in v }

\* INSERT INTO url_records ... RETURNING: the possible outcomes
InsertOutcomes(id, code, long, short) ==
    LET v == ViolatedConstraints(code, long)
        row == [ID |-> id, Code |-> code, LongUrl |-> long, ShortUrl |-> short]
    IN  IF v = {}
        THEN { [rec |-> row, err |-> NoErr, rows |-> store \cup {row}, viol |-> "none"] }
        ELSE { [rec |-> EmptyRecord,
                err |-> UniqueViolation(c, IF c = "code" THEN code ELSE long),
                rows |-> store, viol |-> c] : c \in v }

\* ------------------------------------------------------------------- state
NoRequest == [ctype |-> "", hasUrl |-> FALSE, url |-> <<>>]
InitCall == [req |-> NoRequest, base |-> <<>>, long |-> <<>>, i |-> 0, attempt |-> 0, err |-> NoErr]
InitRet == [rec |-> EmptyRecord, created |-> FALSE, err |-> NoErr]
InitHist == [lookups |-> 0, rereads |-> 0, inserts |-> <<>>, rand |-> "ok"]
InitRes == [state |-> "idle", code |-> <<>>, url |-> <<>>, err |-> NoErr, calls |-> 0,
            status |-> 0, location |-> <<>>]
InitResp == [status |-> 0, body |-> EmptyRecord, error |-> <<>>]
InitGen == [rn |-> <<>>, code |-> <<>>]

Init ==
    /\ store = {}
    /\ faults = 0
    /\ pc = [p \in Procs |-> "idle"]
    /\ call = [p \in Procs |-> InitCall]
    /\ ret = [p \in Procs |-> InitRet]
    /\ hist = [p \in Procs |-> InitHist]
    /\ res = [q \in Resolvers |-> InitRes]
    /\ resp = [p \in Procs |-> InitResp]
    /\ gen = InitGen

\* ---------------------------------------------------------- POST /shorten
\* mime.ParseMediaType on the Content-Type headers requests carry
MediaType(ct) ==
    IF ct = "application/json" THEN [err |-> FALSE, mt |-> "application/json"]
    ELSE IF ct = "text/plain" THEN [err |-> FALSE, mt |-> "text/plain"]
    ELSE [err |-> TRUE, mt |-> ""]

\* url.ParseRequestURI on the URLs requests carry: the scheme of a URL that
\* begins with a scheme and a host, an error otherwise
ParseRequestURI(raw) ==
    IF raw = <<>> THEN [err |-> TRUE, Scheme |-> ""]
    ELSE IF raw[1] = "https://example.com/" THEN [err |-> FALSE, Scheme |-> "https"]
    ELSE IF raw[1] = "http://example.com/" THEN [err |-> FALSE, Scheme |-> "http"]
    ELSE IF raw[1] = "ftp://example.com/" THEN [err |-> FALSE, Scheme |-> "ftp"]
    ELSE [err |-> TRUE, Scheme |-> ""]

\* the requests clients send: one well-formed request per long URL, and
\* requests with a wrong or missing Content-Type, without url, with an empty
\* url, with text that is no URL and with an ftp URL
Requests ==
    { [ctype |-> "application/json", hasUrl |-> TRUE, url |-> u] : u \in LongURLs }
    \cup { [ctype |-> "text/plain", hasUrl |-> TRUE, url |-> <<"https://example.com/", "a">>],
           [ctype |-> "", hasUrl |-> TRUE, url |-> <<"https://example.com/", "a">>],
           [ctype |-> "application/json", hasUrl |-> FALSE, url |-> <<>>],
           [ctype |-> "application/json", hasUrl |-> TRUE, url |-> <<>>],
           [ctype |-> "application/json", hasUrl |-> TRUE, url |-> <<"not a url">>],
           [ctype |-> "application/json", hasUrl |-> TRUE, url |-> <<"ftp://example.com/", "a">>] }

\* the validation written without the scheme test
Validate_NoScheme(r) ==
    IF MediaType(r.ctype).err \/ MediaType(r.ctype).mt # "application/json"
    THEN <<"Content-Type must be application/json">>
    ELSE IF ~r.hasUrl \/ r.url = <<>>
    THEN <<"Missing field: url">>
    ELSE IF ParseRequestURI(r.url).err
    THEN <<"Malformed or unsupported URL">>
    ELSE <<>>

\* the checks Handler.Shorten makes before it calls the service: the error
\* text of the 400 response, or the empty text
Validate(r) ==
    IF MediaType(r.ctype).err \/ MediaType(r.ctype).mt # "application/json"
    THEN <<"Content-Type must be application/json">>
    ELSE IF ~r.hasUrl \/ r.url = <<>>
    THEN <<"Missing field: url">>
    ELSE IF ParseRequestURI(r.url).err
            \/ (ParseRequestURI(r.url).Scheme # "http" /\ ParseRequestURI(r.url).Scheme # "https")
    THEN <<"Malformed or unsupported URL">>
    ELSE <<>>

\* err.Error()
ErrorText(err) == IF err.kind = "pq.Error" THEN <<"pq: ">> \o err.Message ELSE <<err.kind>>

\* the handler answering 200 whenever the service returned no error
Respond_AlwaysOK(rec, created, err) ==
    IF err # NoErr
    THEN [status |-> 500, body |-> EmptyRecord, error |-> ErrorText(err)]
    ELSE [status |-> 200, body |-> rec, error |-> <<>>]

\* the response Handler.Shorten writes for what the service returned
Respond(rec, created, err) ==
    IF err # NoErr
    THEN [status |-> 500, body |-> EmptyRecord, error |-> ErrorText(err)]
    ELSE IF created
    THEN [status |-> 201, body |-> rec, error |-> <<>>]
    ELSE [status |-> 200, body |-> rec, error |-> <<>>]

\* return rec, created, err, and the response the handler writes for it
Return(p, rec, created, err) ==
    /\ pc' = [pc EXCEPT ![p] = "done"]
    /\ ret' = [ret EXCEPT ![p] = [rec |-> rec, created |-> created, err |-> err]]
    /\ resp' = [resp EXCEPT ![p] = Respond(rec, created, err)]

\* a client posts a request: the handler answers 400, or invokes
\* Shorten(ctx, baseUrl, long)
Start(p) ==
    /\ pc[p] = "idle"
    /\ \E b \in {BaseURL(p)}, r \in Requests :
         IF Validate(r) # <<>>
         THEN /\ call' = [call EXCEPT ![p] = [InitCall EXCEPT !.req = r]]
              /\ pc' = [pc EXCEPT ![p] = "rejected"]
              /\ resp' = [resp EXCEPT ![p] = [status |-> 400, body |-> EmptyRecord, error |-> Validate(r)]]
         ELSE /\ call' = [call EXCEPT ![p] = [InitCall EXCEPT !.req = r, !.base = b, !.long = r.url]]
              /\ pc' = [pc EXCEPT ![p] = "lookup"]
              /\ UNCHANGED resp
    /\ UNCHANGED <<store, faults, ret, hist, res, gen>>

\* the first loop rebuilding the short URL of a found row from its own baseUrl
AfterLookup_Rebase(p, r) ==
    /\ hist' = [hist EXCEPT ![p].lookups = @ + 1]
    /\ IF r.err = NoErr
       THEN /\ Return(p, [r.rec EXCEPT !.ShortUrl = ShortURL(call[p].base, r.rec.Code)],
                      FALSE, NoErr)
            /\ UNCHANGED call
       ELSE /\ call' = [call EXCEPT ![p].i = @ + 1]
            /\ pc' = [pc EXCEPT ![p] = IF call[p].i + 1 < MaxLookups THEN "lookup" ELSE "insert"]
            /\ UNCHANGED <<ret, resp>>

\* what the first loop does with the result of one GetByLong
AfterLookup(p, r) ==
    /\ hist' = [hist EXCEPT ![p].lookups = @ + 1]
    /\ IF r.err = NoErr
       THEN /\ Return(p, r.rec, FALSE, NoErr)
            /\ UNCHANGED call
       ELSE /\ call' = [call EXCEPT ![p].i = @ + 1]
            /\ pc' = [pc EXCEPT ![p] = IF call[p].i + 1 < MaxLookups THEN "lookup" ELSE "insert"]
            /\ UNCHANGED <<ret, resp>>

\* one iteration of "for i := 0; i < 2; i++"
Lookup(p) ==
    /\ pc[p] = "lookup"
    /\ AfterLookup(p, GetByLong(call[p].long))
    /\ UNCHANGED <<store, faults, res, gen>>

\* the same iteration when the storage call fails
LookupFails(p) ==
    /\ pc[p] = "lookup"
    /\ faults < MaxFaults
    /\ faults' = faults + 1
    /\ AfterLookup(p, [rec |-> EmptyRecord, err |-> ErrStorage])
    /\ UNCHANGED <<store, res, gen>>

\* every unique violation taken for a code collision
IsCodeCollision_AnyUnique(err) == TRUE

\* the classification of a pq unique violation
IsCodeCollision(err) == Contains(err.Detail, <<"code">>) \/ Contains(err.Message, <<"code">>)

IsLongURLCollision(err) == Contains(err.Detail, <<"long_url">>) \/ Contains(err.Message, <<"long_url">>)

\* the second loop returning "rec, false, nil" after a successful Insert
AfterInsert_NotCreated(p, o) ==
    /\ hist' = [hist EXCEPT ![p].inserts = Append(@, o.viol)]
    /\ IF o.err = NoErr
       THEN /\ Return(p, o.rec, FALSE, NoErr)
            /\ UNCHANGED call
       ELSE IF o.err.kind # "pq.Error" \/ o.err.Code # PgUniqueViolation
       THEN /\ Return(p, EmptyRecord, FALSE, o.err)
            /\ UNCHANGED call
       ELSE IF Contains(o.err.Detail, <<"code">>) \/ Contains(o.err.Message, <<"code">>)
       THEN IF call[p].attempt + 1 < MaxAttempts
            THEN /\ call' = [call EXCEPT ![p].attempt = @ + 1]
                 /\ UNCHANGED <<pc, ret, resp>>
            ELSE /\ call' = [call EXCEPT ![p].attempt = @ + 1]
                 /\ Return(p, EmptyRecord, FALSE, ErrAlloc)
       ELSE IF Contains(o.err.Detail, <<"long_url">>) \/ Contains(o.err.Message, <<"long_url">>)
       THEN /\ call' = [call EXCEPT ![p].err = o.err]
            /\ pc' = [pc EXCEPT ![p] = "reread"]
            /\ UNCHANGED <<ret, resp>>
       ELSE /\ Return(p, EmptyRecord, FALSE, o.err)
            /\ UNCHANGED call

\* the second loop reporting created=true when it runs out of attempts
AfterInsert_AllocCreated(p, o) ==
    /\ hist' = [hist EXCEPT ![p].inserts = Append(@, o.viol)]
    /\ IF o.err = NoErr
       THEN /\ Return(p, o.rec, TRUE, NoErr)
            /\ UNCHANGED call
       ELSE IF o.err.kind # "pq.Error" \/ o.err.Code # PgUniqueViolation
       THEN /\ Return(p, EmptyRecord, FALSE, o.err)
            /\ UNCHANGED call
       ELSE IF IsCodeCollision(o.err)
       THEN IF call[p].attempt + 1 < MaxAttempts
            THEN /\ call' = [call EXCEPT ![p].attempt = @ + 1]
                 /\ UNCHANGED <<pc, ret, resp>>
            ELSE /\ call' = [call EXCEPT ![p].attempt = @ + 1]
                 /\ Return(p, EmptyRecord, TRUE, ErrAlloc)
       ELSE IF IsLongURLCollision(o.err)
       THEN /\ call' = [call EXCEPT ![p].err = o.err]
            /\ pc' = [pc EXCEPT ![p] = "reread"]
            /\ UNCHANGED <<ret, resp>>
       ELSE /\ Return(p, EmptyRecord, FALSE, o.err)
            /\ UNCHANGED call

\* what the second loop does with the result of one Insert
AfterInsert(p, o) ==
    /\ hist' = [hist EXCEPT ![p].inserts = Append(@, o.viol)]
    /\ IF o.err = NoErr
       THEN /\ Return(p, o.rec, TRUE, NoErr)
            /\ UNCHANGED call
       ELSE IF o.err.kind # "pq.Error" \/ o.err.Code # PgUniqueViolation
       THEN /\ Return(p, EmptyRecord, FALSE, o.err)
            /\ UNCHANGED call
       ELSE IF IsCodeCollision(o.err)
       THEN IF call[p].attempt + 1 < MaxAttempts
            THEN /\ call' = [call EXCEPT ![p].attempt = @ + 1]
                 /\ UNCHANGED <<pc, ret, resp>>
            ELSE /\ call' = [call EXCEPT ![p].attempt = @ + 1]
                 /\ Return(p, EmptyRecord, FALSE, ErrAlloc)
       ELSE IF IsLongURLCollision(o.err)
       THEN /\ call' = [call EXCEPT ![p].err = o.err]
            /\ pc' = [pc EXCEPT ![p] = "reread"]
            /\ UNCHANGED <<ret, resp>>
       ELSE /\ Return(p, EmptyRecord, FALSE, o.err)
            /\ UNCHANGED call

\* one iteration of "for attempt := 0; attempt < 5; attempt++"
Insert(p) ==
    /\ pc[p] = "insert"
    /\ call[p].attempt < MaxAttempts
    /\ \E rn \in RandDraws :
         LET code == GenerateCode(rn)
             short == ShortURL(call[p].base, code)
             id == NewUUID(p, call[p].attempt)
         IN  \E o \in InsertOutcomes(id, code, call[p].long, short) :
               /\ store' = o.rows
               /\ AfterInsert(p, o)
    /\ UNCHANGED <<faults, res, gen>>

\* the failures of an Insert that are not a code or long_url violation:
\* storage unavailable, cancellation, a unique violation of the primary key
InsertFailures(id) ==
    { [rec |-> EmptyRecord, err |-> ErrStorage, rows |-> store, viol |-> "unavailable"],
      [rec |-> EmptyRecord, err |-> ErrCanceled, rows |-> store, viol |-> "canceled"],
      [rec |-> EmptyRecord, err |-> PkeyViolation(id), rows |-> store, viol |-> "pkey"] }

\* GenerateCode falling back on index 0 when the random source fails
GenerateFails_Fallback(p) ==
    /\ pc[p] = "insert"
    /\ call[p].attempt < MaxAttempts
    /\ faults < MaxFaults
    /\ faults' = faults + 1
    /\ LET code == GenerateCode([i \in 1..CodeLen |-> 0])
       IN  \E o \in InsertOutcomes(NewUUID(p, call[p].attempt), code, call[p].long,
                                   ShortURL(call[p].base, code)) :
             /\ store' = o.rows
             /\ pc' = [pc EXCEPT ![p] = "done"]
             /\ ret' = [ret EXCEPT ![p] = [rec |-> o.rec, created |-> o.err = NoErr, err |-> o.err]]
             /\ resp' = [resp EXCEPT ![p] = Respond(o.rec, o.err = NoErr, o.err)]
             /\ hist' = [hist EXCEPT ![p].rand = "failed", ![p].inserts = Append(@, o.viol)]
    /\ UNCHANGED <<call, res, gen>>

\* the same iteration when the random source fails in GenerateCode: rand.Int
\* returns a nil number, reading it panics, and gin's recovery answers 500
GenerateFails(p) ==
    /\ pc[p] = "insert"
    /\ call[p].attempt < MaxAttempts
    /\ faults < MaxFaults
    /\ faults' = faults + 1
    /\ hist' = [hist EXCEPT ![p].rand = "failed"]
    /\ pc' = [pc EXCEPT ![p] = "panic"]
    /\ resp' = [resp EXCEPT ![p] = [status |-> 500, body |-> EmptyRecord, error |-> <<>>]]
    /\ UNCHANGED <<store, call, ret, res, gen>>

\* the same iteration when the storage call fails
InsertFails(p) ==
    /\ pc[p] = "insert"
    /\ call[p].attempt < MaxAttempts
    /\ faults < MaxFaults
    /\ faults' = faults + 1
    /\ \E o \in InsertFailures(NewUUID(p, call[p].attempt)) : AfterInsert(p, o)
    /\ UNCHANGED <<store, res, gen>>

\* the long_url branch returning "rec, true, nil" after its GetByLong
AfterReread_Created(p, r) ==
    /\ hist' = [hist EXCEPT ![p].rereads = @ + 1]
    /\ IF r.err = NoErr
       THEN Return(p, r.rec, TRUE, NoErr)
       ELSE Return(p, EmptyRecord, FALSE, call[p].err)
    /\ UNCHANGED call

\* the long_url branch returning the error of its GetByLong
AfterReread_RereadErr(p, r) ==
    /\ hist' = [hist EXCEPT ![p].rereads = @ + 1]
    /\ IF r.err = NoErr
       THEN Return(p, r.rec, FALSE, NoErr)
       ELSE Return(p, EmptyRecord, FALSE, r.err)
    /\ UNCHANGED call

\* what the long_url branch does with the result of its GetByLong
AfterReread(p, r) ==
    /\ hist' = [hist EXCEPT ![p].rereads = @ + 1]
    /\ IF r.err = NoErr
       THEN Return(p, r.rec, FALSE, NoErr)
       ELSE Return(p, EmptyRecord, FALSE, call[p].err)
    /\ UNCHANGED call

\* the re-read after a long_url violation
Reread(p) ==
    /\ pc[p] = "reread"
    /\ AfterReread(p, GetByLong(call[p].long))
    /\ UNCHANGED <<store, faults, res, gen>>

\* the re-read when the storage call fails
RereadFails(p) ==
    /\ pc[p] = "reread"
    /\ faults < MaxFaults
    /\ faults' = faults + 1
    /\ AfterReread(p, [rec |-> EmptyRecord, err |-> ErrStorage])
    /\ UNCHANGED <<store, res, gen>>

\* the redirect written without the early return on an error
RedirectResponse_NoAbort(longUrl, err) == [status |-> 302, location |-> longUrl]

\* the response Handler.Redirect writes for what Resolve returned
RedirectResponse(longUrl, err) ==
    IF err # NoErr
    THEN [status |-> 404, location |-> <<>>]
    ELSE [status |-> 302, location |-> longUrl]

\* the codes a Resolve caller may ask for: codes callers were given, and one
\* nobody owns
ResolveInputs ==
    {ret[p].rec.Code : p \in {x \in Procs : pc[x] = "done" /\ ret[x].err = NoErr}}
    \cup {<<"d","o","e","s","n","o","t","e","x","i","s","t">>}

\* Resolve returning rec.ShortUrl
AfterResolve_ShortUrl(q, code, r) ==
    res' = [res EXCEPT ![q] =
              [state |-> "done", code |-> code,
               url |-> IF r.err # NoErr THEN <<>> ELSE r.rec.ShortUrl,
               err |-> r.err, calls |-> res[q].calls + 1,
               status |-> RedirectResponse(r.rec.ShortUrl, r.err).status,
               location |-> RedirectResponse(r.rec.ShortUrl, r.err).location]]

\* Resolve reporting every failed lookup as not found
AfterResolve_NotFound(q, code, r) ==
    res' = [res EXCEPT ![q] =
              [state |-> "done", code |-> code,
               url |-> IF r.err # NoErr THEN <<>> ELSE r.rec.LongUrl,
               err |-> IF r.err # NoErr THEN ErrNoRows ELSE NoErr,
               calls |-> res[q].calls + 1,
               status |-> RedirectResponse(r.rec.LongUrl, r.err).status,
               location |-> RedirectResponse(r.rec.LongUrl, r.err).location]]

\* what Resolve does with the result of GetByCode, and the response
\* Handler.Redirect writes for it
AfterResolve(q, code, r) ==
    res' = [res EXCEPT ![q] =
              [state |-> "done", code |-> code,
               url |-> IF r.err # NoErr THEN <<>> ELSE r.rec.LongUrl,
               err |-> r.err, calls |-> res[q].calls + 1,
               status |-> RedirectResponse(r.rec.LongUrl, r.err).status,
               location |-> RedirectResponse(r.rec.LongUrl, r.err).location]]

\* Resolve deleting the row it returns
Resolve_Consume(q) ==
    /\ res[q].state = "idle"
    /\ \E code \in ResolveInputs :
         /\ AfterResolve(q, code, GetByCode(code))
         /\ store' = {r \in store : r.Code # code}
    /\ UNCHANGED <<faults, pc, call, ret, hist, resp, gen>>

\* Resolve(ctx, code)
Resolve(q) ==
    /\ res[q].state = "idle"
    /\ \E code \in ResolveInputs : AfterResolve(q, code, GetByCode(code))
    /\ UNCHANGED <<store, faults, pc, call, ret, hist, resp, gen>>

\* Resolve(ctx, code) when the storage call fails
ResolveFails(q) ==
    /\ res[q].state = "idle"
    /\ faults < MaxFaults
    /\ faults' = faults + 1
    /\ \E code \in ResolveInputs :
         AfterResolve(q, code, [rec |-> EmptyRecord, err |-> ErrStorage])
    /\ UNCHANGED <<store, pc, call, ret, hist, resp, gen>>

Next ==
    \/ \E p \in Procs : Start(p)
    \/ \E p \in Procs : Lookup(p)
    \/ \E p \in Procs : LookupFails(p)
    \/ \E p \in Procs : Insert(p)
    \/ \E p \in Procs : GenerateFails(p)
    \/ \E p \in Procs : InsertFails(p)
    \/ \E p \in Procs : Reread(p)
    \/ \E p \in Procs : RereadFails(p)
    \/ \E q \in Resolvers : Resolve(q)
    \/ \E q \in Resolvers : ResolveFails(q)

Spec == Init /\ [][Next]_vars

\* every Shorten call that has a storage call or a return to make gets to
\* make it
FairSpec ==
    /\ Spec
    /\ \A p \in Procs :
         WF_vars(Lookup(p) \/ LookupFails(p) \/ Insert(p) \/ InsertFails(p)
                 \/ GenerateFails(p) \/ Reread(p) \/ RereadFails(p))

\* ------------------------------------------------- the code generator alone
\* the values rand.Int yields for the characters of one code: any of the 62
\* indices, the six draws within NumRand of each other
GenDraws ==
    { [i \in 1..CodeLen |-> (k + off[i]) % Len(chars)] :
        k \in 0..(Len(chars) - 1), off \in [1..CodeLen -> 0..(NumRand - 1)] }

\* one call of GenerateCode
Generate ==
    /\ gen.rn = <<>>
    /\ \E rn \in GenDraws : gen' = [rn |-> rn, code |-> GenerateCode(rn)]
    /\ UNCHANGED <<store, faults, pc, call, ret, hist, res, resp>>

GenSpec == Init /\ [][Generate]_vars

TypeOK ==
    /\ faults \in 0..MaxFaults
    /\ \A p \in Procs : pc[p] \in {"idle", "rejected", "lookup", "insert", "reread", "panic", "done"}
    /\ \A r \in store : r.LongUrl \in LongURLs
    /\ \A p \in Procs : call[p].base \in BaseURLs \cup {<<>>}


\* ------------------------------------------------------------ observations
Done(p) == pc[p] = "done"

Succeeded(p) == Done(p) /\ ret[p].err = NoErr

\* the calls made so far for long URL u
CallsFor(u) == {p \in Procs : pc[p] # "idle" /\ call[p].long = u}

MappingsFor(u) == {r \in store : r.LongUrl = u}

\* what storage answered to the insert attempts of call p
Outcomes(p) == {hist[p].inserts[k] : k \in 1..Len(hist[p].inserts)}

\* the identifiers call p may offer to storage
OwnIDs(p) == {NewUUID(p, k) : k \in 0..4}

\* the insert of call p is the one that committed a row
Committed(p) == \E r \in store : r.ID \in OwnIDs(p)

\* C1: when two or more Shorten calls for the same unseen long URL have all
\* returned, no storage call failed for infrastructure reasons and none of
\* the calls met a code collision, exactly one call returned created=true,
\* the others returned created=false without error and with the winner's
\* code, and url_records holds exactly one row for that long URL.
C1_ExactlyOneCreator ==
    \A u \in LongURLs :
      ( /\ Cardinality(CallsFor(u)) >= 2
        /\ \A p \in CallsFor(u) : Done(p) /\ "code" \notin Outcomes(p)
        /\ faults = 0 )
      => /\ Cardinality({p \in CallsFor(u) : ret[p].created}) = 1
         /\ \A p \in CallsFor(u) : ret[p].err = NoErr
         /\ \A p, q \in CallsFor(u) : ret[p].rec.Code = ret[q].rec.Code
         /\ Cardinality(MappingsFor(u)) = 1

\* C2: any two Shorten calls for the same long URL that returned without
\* error returned records with the same code, the same identifier and the
\* same long URL.
C2_SameMapping ==
    \A p, q \in Procs :
      (Succeeded(p) /\ Succeeded(q) /\ call[p].long = call[q].long)
      => /\ ret[p].rec.Code = ret[q].rec.Code
         /\ ret[p].rec.ID = ret[q].rec.ID
         /\ ret[p].rec.LongUrl = ret[q].rec.LongUrl

\* two successful calls for one long URL, one that created the mapping and
\* one that read it back after losing the race
C2_Witness ==
    \E p, q \in Procs :
      /\ p # q /\ Succeeded(p) /\ Succeeded(q) /\ call[p].long = call[q].long
      /\ ret[p].created /\ ~ret[q].created /\ hist[q].rereads = 1
      /\ ret[p].rec.ID # <<>>

\* C3: for each long URL at most one call ever returns created=true; a call
\* that has returned reports created=true exactly when a row it inserted is
\* stored, and every other successful call for that URL reports false.
C3_CreatorOwnsCreated ==
    /\ \A u \in LongURLs : Cardinality({p \in CallsFor(u) : Done(p) /\ ret[p].created}) <= 1
    /\ \A p \in Procs : Done(p) => (ret[p].created <=> Committed(p))
    /\ \A p, q \in Procs :
         (p # q /\ Succeeded(p) /\ Succeeded(q) /\ call[p].long = call[q].long /\ ret[p].created)
         => ~ret[q].created

\* a creator, a caller that started before the commit and lost the race, and
\* the creator's row in storage
C3_Witness ==
    \E p, q \in Procs :
      /\ p # q /\ call[p].long = call[q].long
      /\ Succeeded(p) /\ ret[p].created /\ Committed(p)
      /\ Succeeded(q) /\ ~ret[q].created /\ ~Committed(q)
      /\ hist[q].lookups = 2 /\ Len(hist[q].inserts) = 1

\* C4: no two rows of url_records have the same long URL.
C4_LongUrlUnique ==
    \A r1, r2 \in store : r1.LongUrl = r2.LongUrl => r1 = r2

\* a second insert for a stored long URL was attempted and one row is stored
C4_Witness ==
    \E p \in Procs :
      /\ "long_url" \in Outcomes(p)
      /\ Cardinality(MappingsFor(call[p].long)) = 1
      /\ \E q \in Resolvers : res[q].state = "done"

\* C5: no two rows of url_records have the same code; successful calls for
\* different long URLs returned different codes; a call that created its
\* mapping after a code collision created it under a code no other row owns.
C5_CodeUnique ==
    /\ \A r1, r2 \in store : r1.Code = r2.Code => r1 = r2
    /\ \A p, q \in Procs :
         (Succeeded(p) /\ Succeeded(q) /\ call[p].long # call[q].long)
         => ret[p].rec.Code # ret[q].rec.Code
    /\ \A p \in Procs :
         (Done(p) /\ ret[p].created /\ "code" \in Outcomes(p))
         => \A r \in store : r.Code = ret[p].rec.Code => r.LongUrl = call[p].long

\* two long URLs shortened, the second after its first candidate collided
C5_Witness ==
    \E p, q \in Procs :
      /\ Succeeded(p) /\ Succeeded(q) /\ call[p].long # call[q].long
      /\ ret[p].created /\ hist[p].inserts = <<"code", "none">>
      /\ Cardinality(store) = 2

\* C6: a Resolve of the code a successful Shorten call returned, issued after
\* that call returned and not failed by storage, returns that call's long URL.
C6_RoundTrip ==
    [][ \A q \in Resolvers : \A p \in Procs :
          ( /\ res[q].state = "idle" /\ res'[q].state = "done"
            /\ Succeeded(p) /\ res'[q].code = ret[p].rec.Code
            /\ res'[q].err # ErrStorage )
          => (res'[q].err = NoErr /\ res'[q].url = call[p].long) ]_vars

\* a code returned by a call that did not create the mapping was resolved
C6_Witness ==
    \E q \in Resolvers : \E p \in Procs :
      /\ res[q].state = "done" /\ res[q].err = NoErr
      /\ Succeeded(p) /\ ~ret[p].created
      /\ res[q].code = ret[p].rec.Code /\ res[q].url = call[p].long

\* C7: a call whose insert was rejected by the long_url constraint re-reads
\* once and, when no storage call fails, returns the stored mapping for its
\* long URL with created=false and no error.
C7_RaceInvisible ==
    \A p \in Procs :
      (Done(p) /\ "long_url" \in Outcomes(p) /\ faults = 0)
      => /\ ret[p].err = NoErr
         /\ ~ret[p].created
         /\ ret[p].rec \in MappingsFor(call[p].long)
         /\ hist[p].rereads = 1

\* C8: an insert rejected by the long_url constraint is the last insert
\* attempt of its call and is followed by the re-read, whatever the long URL.
C8_NoRetryOnLongUrl ==
    \A p \in Procs : \A k \in 1..Len(hist[p].inserts) :
      hist[p].inserts[k] = "long_url"
      => /\ k = Len(hist[p].inserts)
         /\ pc[p] \in {"reread", "done"}
         /\ Done(p) => hist[p].rereads = 1

\* C9: when an insert succeeds after an earlier attempt of the same call was
\* rejected by the code constraint, the call returns the stored row with
\* created=true and no error, under a code no row had before.
C9_RetryCreates ==
    [][ \A p \in Procs :
          ( /\ pc[p] = "insert" /\ "code" \in Outcomes(p)
            /\ Len(hist'[p].inserts) = Len(hist[p].inserts) + 1
            /\ hist'[p].inserts[Len(hist'[p].inserts)] = "none" )
          => /\ pc'[p] = "done"
             /\ ret'[p].created /\ ret'[p].err = NoErr
             /\ ret'[p].rec \in store' /\ ret'[p].rec \notin store
             /\ ret'[p].rec.LongUrl = call[p].long
             /\ \A r \in store : r.Code # ret'[p].rec.Code ]_vars

\* a call created its mapping on its third attempt
C9_Witness ==
    \E p \in Procs :
      /\ Done(p) /\ ret[p].created /\ ret[p].err = NoErr
      /\ hist[p].inserts = <<"code", "code", "none">>

\* C10: a call whose insert attempts were all rejected as code collisions
\* makes exactly 5 attempts and returns "Could not allocate unique code"
\* with created=false; no call makes more than 5 attempts.
C10_RetryBound ==
    \A p \in Procs :
      /\ Len(hist[p].inserts) <= 5
      /\ (Done(p) /\ hist[p].inserts # <<>> /\ Outcomes(p) = {"code"})
         => /\ Len(hist[p].inserts) = 5
            /\ ret[p].err = ErrAlloc
            /\ ~ret[p].created
            /\ ret[p].rec = EmptyRecord
      /\ (Done(p) /\ ret[p].err = ErrAlloc) => Len(hist[p].inserts) = 5

\* a call gave up after five code collisions
C10_Witness ==
    \E p \in Procs :
      /\ Done(p) /\ ret[p].err = ErrAlloc
      /\ hist[p].inserts = <<"code", "code", "code", "code", "code">>


\* the step is a storage call of Shorten caller p that storage failed
FailedCallOf(p) ==
    faults' = faults + 1 /\ hist'[p] # hist[p] /\ hist'[p].rand = hist[p].rand

\* the step is a storage call of Shorten caller p that storage answered
AnsweredCallOf(p) == faults' = faults /\ hist'[p] # hist[p]

\* the step is the storage call of Resolve caller q
ResolveStep(q) == res[q].state = "idle" /\ res'[q].state = "done"

\* the failure an Insert of call p reported as outcome k of its attempts
FailureOf(p, k) ==
    IF hist[p].inserts[k] = "unavailable" THEN ErrStorage
    ELSE IF hist[p].inserts[k] = "canceled" THEN ErrCanceled
    ELSE PkeyViolation(NewUUID(p, k - 1))

\* C11: when a mapping for the long URL is stored and the first lookup of a
\* Shorten call is answered by storage, the call returns that stored mapping
\* with created=false and no error, has made no insert attempt, and the rows
\* of url_records are unchanged.
C11_ExistingReturned ==
    [][ \A p \in Procs :
          ( /\ pc[p] = "lookup" /\ hist[p].lookups = 0
            /\ MappingsFor(call[p].long) # {}
            /\ AnsweredCallOf(p) )
          => /\ pc'[p] = "done"
             /\ ret'[p].rec \in MappingsFor(call[p].long)
             /\ ~ret'[p].created /\ ret'[p].err = NoErr
             /\ hist'[p].inserts = <<>> /\ hist'[p].rereads = 0
             /\ store' = store ]_vars

\* a call that found the mapping another call had created, on its first lookup
C11_Witness ==
    \E p, q \in Procs :
      /\ p # q /\ Done(q) /\ ret[q].created /\ call[p].long = call[q].long
      /\ Done(p) /\ ~ret[p].created /\ ret[p].rec = ret[q].rec
      /\ hist[p].lookups = 1 /\ hist[p].inserts = <<>>

\* C12: when the first insert of a Shorten call succeeds, the call returns
\* created=true and no error with a record whose long URL is the argument,
\* whose short URL is baseUrl followed by its code and whose identifier is
\* not empty, and url_records then holds exactly that row for the long URL.
C12_FreshMapping ==
    [][ \A p \in Procs :
          ( /\ pc[p] = "insert" /\ hist[p].inserts = <<>>
            /\ hist'[p].inserts = <<"none">> )
          => /\ pc'[p] = "done"
             /\ ret'[p].created /\ ret'[p].err = NoErr
             /\ ret'[p].rec.LongUrl = call[p].long
             /\ ret'[p].rec.ShortUrl = call[p].base \o ret'[p].rec.Code
             /\ ret'[p].rec.ID # <<>>
             /\ MappingsFor(call[p].long) = {}
             /\ {r \in store' : r.LongUrl = call[p].long} = {ret'[p].rec} ]_vars

\* a call created its mapping on the first attempt while no other caller was
\* shortening the same long URL
C12_Witness ==
    \E p \in Procs :
      /\ Done(p) /\ ret[p].created /\ hist[p].inserts = <<"none">>
      /\ MappingsFor(call[p].long) = {ret[p].rec}
      /\ \A q \in Procs \ {p} : pc[q] = "idle"

\* C13: an insert attempt that fails with something other than a code or
\* long_url violation is the last storage call of its Shorten call, which
\* returns that failure with created=false and an empty record.
C13_OtherFailureAborts ==
    \A p \in Procs : \A k \in 1..Len(hist[p].inserts) :
      hist[p].inserts[k] \in {"unavailable", "canceled", "pkey"}
      => /\ k = Len(hist[p].inserts)
         /\ Done(p)
         /\ hist[p].rereads = 0
         /\ ret[p] = [rec |-> EmptyRecord, created |-> FALSE, err |-> FailureOf(p, k)]

\* a call's second insert hit a duplicate primary key
C13_Witness ==
    \E p \in Procs :
      /\ Done(p) /\ hist[p].inserts = <<"code", "pkey">>
      /\ ret[p].err = PkeyViolation(NewUUID(p, 1))

C15_RereadFailure ==
    \A p \in Procs :
      /\ hist[p].rereads <= 1
      /\ (hist[p].rereads = 1 /\ ret[p].err # NoErr)
         => /\ Done(p)
            /\ hist[p].inserts[Len(hist[p].inserts)] = "long_url"
            /\ ret[p] = [rec |-> EmptyRecord, created |-> FALSE,
                         err |-> UniqueViolation("long_url", call[p].long)]

\* the re-read of a call failed while the winner's row was stored
C15_Witness ==
    \E p \in Procs :
      /\ Done(p) /\ hist[p].rereads = 1 /\ ret[p].err.kind = "pq.Error"
      /\ hist[p].inserts = <<"long_url">>
      /\ MappingsFor(call[p].long) # {}

\* C16: a Shorten call that returned an error has no row in url_records: no
\* stored row carries an identifier the call generated.
C16_ErrorCommitsNothing ==
    \A p \in Procs :
      (Done(p) /\ ret[p].err # NoErr)
      => /\ ~Committed(p)
         /\ \A r \in store : r.ID \notin OwnIDs(p)
         /\ "none" \notin Outcomes(p)

\* a call gave up after its candidates collided with a stored row
C16_Witness ==
    \E p \in Procs :
      /\ Done(p) /\ ret[p].err = ErrAlloc /\ Len(hist[p].inserts) = 5
      /\ store # {} /\ ~Committed(p)

\* C17: every step keeps every stored row, with the same identifier, code,
\* long URL and short URL.
C17_MappingsTerminal ==
    [][ \A r \in store : r \in store' ]_vars

\* a row was created, a later insert for its long URL was rejected and the
\* row was read back, and a Resolve has run
C17_Witness ==
    /\ \E p, q \in Procs :
         /\ Done(q) /\ ret[q].created /\ ret[q].rec \in store
         /\ Done(p) /\ hist[p].rereads = 1 /\ ret[p].rec = ret[q].rec
    /\ \E q \in Resolvers : res[q].state = "done" /\ res[q].err = NoErr

\* C18: a Resolve that storage answered, for a code a stored row owns,
\* returns that row's long URL without error; a Resolve returns a URL only
\* if a stored row with the requested code has it.
C18_ResolveReturnsOwner ==
    [][ \A q \in Resolvers :
          ResolveStep(q)
          => /\ \A r \in store :
                  (r.Code = res'[q].code /\ faults' = faults)
                  => (res'[q].err = NoErr /\ res'[q].url = r.LongUrl)
             /\ res'[q].url # <<>>
                  => \E r \in store : r.Code = res'[q].code /\ r.LongUrl = res'[q].url ]_vars

\* a Resolve found one of two stored rows
C18_Witness ==
    \E q \in Resolvers :
      /\ res[q].state = "done" /\ res[q].err = NoErr /\ res[q].url \in LongURLs
      /\ Cardinality(store) = 2
      /\ \E r \in store : r.Code = res[q].code /\ r.LongUrl = res[q].url

\* C19: a Resolve that storage answered, for a code no stored row owns,
\* returns sql.ErrNoRows and an empty long URL and leaves url_records as it
\* was.
C19_ResolveNotFound ==
    [][ \A q \in Resolvers :
          ( /\ ResolveStep(q) /\ faults' = faults
            /\ \A r \in store : r.Code # res'[q].code )
          => /\ res'[q].err = ErrNoRows
             /\ res'[q].url = <<>>
             /\ store' = store ]_vars

\* a Resolve of an unknown code ran against a non-empty table
C19_Witness ==
    \E q \in Resolvers :
      /\ res[q].state = "done" /\ res[q].err = ErrNoRows /\ res[q].url = <<>>
      /\ store # {}
      /\ \A r \in store : r.Code # res[q].code

\* C20: a Resolve whose lookup storage failed returns that failure and an
\* empty long URL after one storage call.
C20_ResolveFailurePropagates ==
    [][ \A q \in Resolvers :
          (ResolveStep(q) /\ faults' = faults + 1)
          => /\ res'[q].err = ErrStorage
             /\ res'[q].url = <<>>
             /\ res'[q].calls = 1
             /\ store' = store ]_vars

\* a Resolve of a stored code failed in storage
C20_Witness ==
    \E q \in Resolvers :
      /\ res[q].state = "done" /\ res[q].err = ErrStorage /\ res[q].url = <<>>
      /\ res[q].calls = 1
      /\ \E r \in store : r.Code = res[q].code

\* C21: a Resolve changes nothing a Shorten call reads or returns: the rows of
\* url_records after it are the rows before it, and the position, arguments,
\* history, result and response of every Shorten call are as they were.
C21_ResolveReadOnly ==
    [][ \A q \in Resolvers :
          ResolveStep(q)
          => /\ store' = store
             /\ pc' = pc /\ call' = call /\ hist' = hist
             /\ ret' = ret /\ resp' = resp ]_vars

\* a Resolve of a stored code has run while another Shorten call was between
\* its lookups and its insert
C21_Witness ==
    \E q \in Resolvers : \E p \in Procs : \E p2 \in Procs \ {p} :
      /\ res[q].state = "done" /\ res[q].err = NoErr
      /\ Succeeded(p) /\ ret[p].rec \in store
      /\ res[q].code = ret[p].rec.Code
      /\ pc[p2] = "insert"

\* C22: url_records holds as many rows as calls have returned created=true,
\* the long URLs stored are exactly those for which a call has succeeded, each
\* of them has one row, and a call that succeeded with created=false returned
\* a row of its own long URL.
C22_OneRowPerCreator ==
    /\ Cardinality(store) = Cardinality({p \in Procs : Done(p) /\ ret[p].created})
    /\ {r.LongUrl : r \in store} = {u \in LongURLs : \E p \in CallsFor(u) : Succeeded(p)}
    /\ \A u \in LongURLs :
         (\E p \in CallsFor(u) : Succeeded(p)) => Cardinality(MappingsFor(u)) = 1
    /\ \A p \in Procs :
         (Succeeded(p) /\ ~ret[p].created) => ret[p].rec.LongUrl = call[p].long

\* two calls for two distinct long URLs have both returned created=true
C22_Witness ==
    \E p \in Procs : \E p2 \in Procs \ {p} :
      /\ call[p].long # call[p2].long
      /\ Succeeded(p) /\ ret[p].created
      /\ Succeeded(p2) /\ ret[p2].created
      /\ Cardinality(store) = 2

\* C23: a returned Shorten call is answered 201 with the record when
\* created=true, 200 with the record when created=false without error, and
\* 500 with the error text and no record when the service returned an error.
C23_ShortenStatus ==
    \A p \in Procs :
      Done(p)
      => /\ (ret[p].err = NoErr /\ ret[p].created)
              => resp[p] = [status |-> 201, body |-> ret[p].rec, error |-> <<>>]
         /\ (ret[p].err = NoErr /\ ~ret[p].created)
              => resp[p] = [status |-> 200, body |-> ret[p].rec, error |-> <<>>]
         /\ ret[p].err # NoErr
              => /\ resp[p].status = 500
                 /\ resp[p].body = EmptyRecord
                 /\ resp[p].error # <<>>
                 /\ ret[p].err = ErrAlloc
                      => resp[p].error = <<"Could not allocate unique code">>

\* one call was answered 201 with its record and another 500 with the
\* allocation error
C23_Witness ==
    \E p \in Procs : \E p2 \in Procs \ {p} :
      /\ Done(p) /\ resp[p].status = 201 /\ resp[p].body \in store
      /\ Done(p2) /\ ret[p2].err = ErrAlloc /\ resp[p2].status = 500

C25_RedirectStatus ==
    \A q \in Resolvers :
      res[q].state = "done"
      => /\ res[q].err = NoErr
              => /\ res[q].status = 302
                 /\ res[q].location = res[q].url
                 /\ \E r \in store : r.Code = res[q].code /\ r.LongUrl = res[q].location
         /\ res[q].err # NoErr
              => /\ res[q].status = 404
                 /\ res[q].location = <<>>

\* a redirect was answered 302 with the long URL of a stored row
C25_Witness ==
    \E q \in Resolvers :
      /\ res[q].state = "done" /\ res[q].status = 302
      /\ res[q].location \in LongURLs

\* C26: a code returned by GenerateCode has 6 characters, each one of the 26
\* lower-case letters, the 26 upper-case letters or the 10 digits.
C26_CodeShape ==
    gen.rn # <<>>
    => /\ Len(gen.code) = 6
       /\ \A j \in 1..Len(gen.code) :
            gen.code[j] \in
              {"a","b","c","d","e","f","g","h","i","j","k","l","m",
               "n","o","p","q","r","s","t","u","v","w","x","y","z",
               "A","B","C","D","E","F","G","H","I","J","K","L","M",
               "N","O","P","Q","R","S","T","U","V","W","X","Y","Z",
               "0","1","2","3","4","5","6","7","8","9"}

\* a code was generated from draws that reach the last index of the alphabet
\* and the first
C26_Witness ==
    /\ gen.rn # <<>>
    /\ gen.rn[1] = 61 /\ gen.rn[6] = 0
    /\ Len(gen.code) = 6

\* C27: a Shorten call whose code generation met a failing random source
\* ends there: it returns no record, the failing attempt offers nothing to
\* storage, and no row of url_records comes from that attempt.
C27_RandFailureFatal ==
    \A p \in Procs :
      hist[p].rand = "failed"
      => /\ pc[p] = "panic"
         /\ ret[p] = InitRet
         /\ resp[p].body = EmptyRecord
         /\ Len(hist[p].inserts) = call[p].attempt
         /\ \A r \in store : r.ID # NewUUID(p, call[p].attempt)

\* the random source failed on the second attempt of a call, after a code
\* collision on the first
C27_Witness ==
    \E p \in Procs :
      /\ hist[p].rand = "failed" /\ pc[p] = "panic"
      /\ hist[p].inserts = <<"code">>
      /\ store # {}

\* C28: a Shorten call makes at most 5 insert attempts and at most 3 lookups
\* by long URL, and every started call ends: from some moment on no call is
\* between its start and its return.
C28_Terminates ==
    /\ [](\A p \in Procs :
            /\ Len(hist[p].inserts) <= 5
            /\ hist[p].lookups <= 2
            /\ hist[p].rereads <= 1
            /\ hist[p].lookups + hist[p].rereads <= 3)
    /\ <>[](\A p \in Procs : pc[p] \notin {"lookup", "insert", "reread"})

\* a call returned after 5 insert attempts and 3 lookups by long URL
C28_Witness ==
    \E p \in Procs :
      /\ Done(p)
      /\ Len(hist[p].inserts) = 5
      /\ hist[p].lookups + hist[p].rereads = 3

\* C29: every insert attempt of a call that was followed by another attempt
\* was rejected as a collision on code, and a row a call created has the
\* call's base URL followed by the row's code as short URL.
C29_RetryOnlyOnCodeCollision ==
    \A p \in Procs :
      /\ \A k \in 1..Len(hist[p].inserts) :
           k < Len(hist[p].inserts) => hist[p].inserts[k] = "code"
      /\ (Done(p) /\ ret[p].created)
           => ret[p].rec.ShortUrl = call[p].base \o ret[p].rec.Code

\* C30: a Shorten call that returns without error returns a record whose long
\* URL is the one it was called with and which is a row of url_records at
\* that moment.
C30_ReturnedIsStored ==
    [][ \A p \in Procs :
          (pc[p] # "done" /\ pc'[p] = "done" /\ ret'[p].err = NoErr)
          => /\ ret'[p].rec.LongUrl = call[p].long
             /\ ret'[p].rec \in store' ]_vars

\* a call found on its second lookup the row another call had just stored
C30_Witness ==
    \E p \in Procs :
      /\ Succeeded(p) /\ ~ret[p].created
      /\ hist[p].lookups = 2 /\ hist[p].inserts = <<>>
      /\ ret[p].rec \in store /\ ret[p].rec.LongUrl = call[p].long

\* C31: a Shorten call that returned an error returned created=false and a
\* record without identifier, code, long URL and short URL; created=true is
\* returned only without error.
C31_ErrorReturnsEmpty ==
    \A p \in Procs :
      Done(p)
      => /\ ret[p].err # NoErr
              => /\ ~ret[p].created
                 /\ ret[p].rec.ID = <<>> /\ ret[p].rec.Code = <<>>
                 /\ ret[p].rec.LongUrl = <<>> /\ ret[p].rec.ShortUrl = <<>>
         /\ ret[p].created => ret[p].err = NoErr

\* a call whose five candidates were all rejected returned the allocation
\* error with created=false and an empty record
C31_Witness ==
    \E p \in Procs :
      /\ Done(p)
      /\ ret[p] = [rec |-> EmptyRecord, created |-> FALSE, err |-> ErrAlloc]
      /\ Len(hist[p].inserts) = 5 /\ "none" \notin Outcomes(p)

\* C32: the short URL of every stored row is the baseUrl of the call that
\* inserted it followed by the row's code, and a call that returns a row
\* another call inserted returns its short URL as stored, which differs from
\* its own baseUrl followed by the code when the two calls' baseUrl differ.
C32_ShortUrlIsCreators ==
    /\ \A r \in store : \E q \in Procs :
         /\ r.ID \in OwnIDs(q)
         /\ r.ShortUrl = call[q].base \o r.Code
    /\ \A p \in Procs :
         (Succeeded(p) /\ ~ret[p].created)
         => \E q \in Procs \ {p} :
              /\ ret[p].rec.ID \in OwnIDs(q)
              /\ ret[p].rec \in store
              /\ ret[p].rec.ShortUrl = call[q].base \o ret[p].rec.Code
              /\ call[p].base # call[q].base
                   => ret[p].rec.ShortUrl # call[p].base \o ret[p].rec.Code

\* a call made with another baseUrl after the row was stored found it on its
\* first lookup and returned the creator's short URL
C32_Witness ==
    \E p \in Procs : \E q \in Procs \ {p} :
      /\ Succeeded(q) /\ ret[q].created
      /\ Succeeded(p) /\ ~ret[p].created /\ hist[p].lookups = 1
      /\ call[p].long = call[q].long /\ call[p].base # call[q].base
      /\ ret[p].rec = ret[q].rec
      /\ ret[p].rec.ShortUrl = call[q].base \o ret[p].rec.Code

\* C33: a Shorten call whose first lookup found nothing and whose second
\* lookup is answered while a row for its long URL is stored returns that row
\* with created=false and makes no insert attempt; a call that has made an
\* insert attempt has made 2 lookups, neither of which returned a row.
C33_SecondLookupWins ==
    /\ [](\A p \in Procs :
            /\ hist[p].inserts # <<>> => hist[p].lookups = 2
            /\ (pc[p] \in {"insert", "reread"}) => hist[p].lookups = 2)
    /\ [][ \A p \in Procs :
             ( /\ pc[p] = "lookup" /\ hist[p].lookups = 1
               /\ AnsweredCallOf(p)
               /\ MappingsFor(call[p].long) # {} )
             => /\ pc'[p] = "done"
                /\ ret'[p].rec \in MappingsFor(call[p].long)
                /\ ~ret'[p].created /\ ret'[p].err = NoErr
                /\ hist'[p].inserts = <<>>
                /\ store' = store ]_vars

\* a caller missed on its first lookup, another caller that had missed twice
\* then stored the row, and the first caller's second lookup returned it
C33_Witness ==
    \E p \in Procs : \E q \in Procs \ {p} :
      /\ Succeeded(q) /\ ret[q].created /\ hist[q].lookups = 2
      /\ Succeeded(p) /\ ~ret[p].created
      /\ hist[p].lookups = 2 /\ hist[p].inserts = <<>> /\ hist[p].rereads = 0
      /\ ret[p].rec = ret[q].rec

====
